---- MODULE Spec2Model ----
(***************************************************************************)
(* A model of packages/esm-worker/compiler/src/swc.rs: SWC::parse,         *)
(* SWC::parse_export_names, SWC::transform and SWC::apply_fold.            *)
(*                                                                         *)
(* Text is a sequence of one-character strings, so that String::contains   *)
(* and the quoting done by to_str_lit and by the code printer are computed *)
(* and not assumed.  A module is a sequence of module items.               *)
(***************************************************************************)
EXTENDS Integers, Sequences, FiniteSets, TLC

VARIABLES
    pc,          \* position of the caller / of transform
    swc,         \* the SWC value produced by parse (SWC struct, swc.rs:45-51)
    parsed,      \* outcome of SWC::parse: Result<SWC, anyhow::Error> or a panic
    resolver,    \* the Resolver behind Rc<RefCell<..>> handed to transform
    options,     \* the EmitOptions handed to transform
    remote,      \* transform's local specifier_is_remote (swc.rs:121)
    passes,      \* the chain! of passes built by transform (swc.rs:127-169)
    idx,         \* the pass of the chain that folds next
    program,     \* the Program being folded / emitted in apply_fold
    code,        \* the emitted text (buf / src in apply_fold)
    map,         \* the Option<String> source map of apply_fold
    mapBuilt,    \* whether build_source_map_from has been called
    result,      \* what transform handed to its caller
    log,         \* the steps of transform that have run, in order
    names        \* outcome of SWC::parse_export_names

vars == <<pc, swc, parsed, resolver, options, remote, passes, idx, program,
          code, map, mapBuilt, result, log, names>>

----------------------------------------------------------------------------
(* Bounds of the model *)

\* longest module (number of module items) given to parse
MaxItems == 2
\* deepest nesting of a destructuring pattern given to parse_export_names
MaxDepth == 1

----------------------------------------------------------------------------
(* Strings *)

DQ == "\""
SQ == "'"
BS == "\\"

\* str::contains: needle occurs as a contiguous substring of hay
Contains(hay, needle) ==
    \E i \in 0..(Len(hay) - Len(needle)) :
        \A j \in 1..Len(needle) : hay[i + j] = needle[j]

\* a mutant of to_str_lit: wraps the text in single quotes
to_str_lit_single(sub_text) == <<SQ>> \o sub_text \o <<SQ>>

\* fn to_str_lit: "\"" + sub_text + "\"", nothing escaped
to_str_lit(sub_text) == <<DQ>> \o sub_text \o <<DQ>>

RECURSIVE Flatten(_)
\* concatenation of a sequence of texts
Flatten(ss) == IF ss = <<>> THEN <<>> ELSE Head(ss) \o Flatten(Tail(ss))

----------------------------------------------------------------------------
(* Source types and grammar selection *)

SourceTypes == {"JS", "JSX", "TS", "TSX", "Unknown"}

\* Option<SourceType> given to parse
Hints == {"None"} \cup SourceTypes

\* The specifiers of the modules that are compiled; the last segment is the
\* file extension, a first segment "https://" makes the specifier remote.
OwnSpecifiers ==
    { <<"https://", "deno.land/x/", "mod", ".ts">>,
      <<"/", "app", ".jsx">>,
      <<"/", "app", ".js">> }

\* SourceType::from(Path): the extension decides
SourceTypeFromPath(specifier) ==
    LET ext == specifier[Len(specifier)] IN
    CASE ext = ".js"  -> "JS"
      [] ext = ".jsx" -> "JSX"
      [] ext = ".ts"  -> "TS"
      [] ext = ".tsx" -> "TSX"
      [] OTHER        -> "Unknown"

\* swc.rs:67-73: an explicit hint wins unless it is Unknown
ResolveSourceType(specifier, hint) ==
    IF hint = "None" \/ hint = "Unknown"
    THEN SourceTypeFromPath(specifier)
    ELSE hint

\* fn get_syntax with get_es_config / get_ts_config: the grammar and its
\* jsx / tsx flag
get_syntax(source_type) ==
    CASE source_type = "JS"  -> [lang |-> "Es", jsx |-> FALSE]
      [] source_type = "JSX" -> [lang |-> "Es", jsx |-> TRUE]
      [] source_type = "TS"  -> [lang |-> "Typescript", jsx |-> FALSE]
      [] source_type = "TSX" -> [lang |-> "Typescript", jsx |-> TRUE]
      [] OTHER               -> [lang |-> "Es", jsx |-> FALSE]

----------------------------------------------------------------------------
(* Modules: a parsed module is the sequence of its module items *)

\* an identifier pattern, the leaf of every destructuring pattern
Ident(n) == [t |-> "id", name |-> <<n>>, elems |-> <<>>]

\* `{ .. }`, `[ .. ]` and `...arg` patterns
ObjectPat(es) == [t |-> "obj", name |-> <<>>, elems |-> es]

ArrayPat(es) == [t |-> "arr", name |-> <<>>, elems |-> es]

RestPat(arg) == [t |-> "rest", name |-> <<>>, elems |-> <<arg>>]

NoPat == [t |-> "none", name |-> <<>>, elems |-> <<>>]

\* a module item that names another module (import / export-from)
ImportItem(k, s) == [kind |-> k, src |-> s, pat |-> NoPat, ids |-> <<>>]

\* a token sequence no grammar accepts
Garbage == [kind |-> "syntax_error", src |-> <<>>, pat |-> NoPat, ids |-> <<>>]

\* `import x from "s"`, `import type {T} from "s"`, `import("s")`,
\* `export {x} from "s"`, `export * from "s"`
ImportKinds == {"import", "import_type", "import_dyn", "export_from", "export_star"}

\* the specifiers written in the compiled modules: one the import map
\* replaces, one passed through, one holding a double quote
RawSpecifiers == { <<"m">>, <<"r">>, <<"q", DQ>> }

Items == { ImportItem(k, s) : k \in ImportKinds, s \in RawSpecifiers } \cup {Garbage}

\* all sequences over S of length at most n
SeqUpTo(S, n) == UNION { [1..k -> S] : k \in 0..n }

\* the source texts given to parse before a transform
Sources == SeqUpTo(Items, MaxItems)

\* whether the grammar `syntax` accepts the item
Accepts(syntax, item) ==
    /\ item.kind # "syntax_error"
    /\ item.kind = "import_type" => syntax.lang = "Typescript"

NoErr == [specifier |-> <<>>, line |-> 0, column |-> 0, message |-> ""]

NoSWC == [specifier |-> <<>>, module |-> <<>>, source_type |-> "Unknown",
          source_map |-> <<>>]

\* DiagnosticBuffer::from_error_buffer: the first diagnostic, with the
\* position sm.lookup_char_pos gives for its span (one item per line)
DiagnosticBuffer(specifier, source, syntax) ==
    LET bad == { i \in 1..Len(source) : ~Accepts(syntax, source[i]) }
        at  == CHOOSE i \in bad : \A j \in bad : i <= j
    IN  [specifier |-> specifier, line |-> at, column |-> 0,
         message |-> "Unexpected token"]

\* SWC::parse.  parser.parse_module().map_err(..).unwrap() (swc.rs:87-94)
\* unwraps the parse error: parse panics with the diagnostic as its message
\* and returns nothing; otherwise it returns Ok(SWC{..}).
parse(specifier, source, hint) ==
    LET source_type == ResolveSourceType(specifier, hint)
        syntax      == get_syntax(source_type)
        failed      == \E i \in 1..Len(source) : ~Accepts(syntax, source[i])
    IN  IF failed
        THEN [kind |-> "Panic",
              err  |-> DiagnosticBuffer(specifier, source, syntax),
              swc  |-> NoSWC]
        ELSE [kind |-> "Ok",
              err  |-> NoErr,
              swc  |-> [specifier   |-> specifier,
                        module      |-> source,
                        source_type |-> source_type,
                        \* source_map.new_source_file(FileName::Real(specifier), ..)
                        source_map  |-> <<specifier>>]]

----------------------------------------------------------------------------
(* The import resolver *)

\* the import map of the compilations
ImportMap == [k \in { <<"m">> } |-> <<"r">>]

IsPrefix(p, s) == Len(p) <= Len(s) /\ SubSeq(s, 1, Len(p)) = p

\* the directory of a specifier: everything before its file name
DirOf(specifier) == SubSeq(specifier, 1, Len(specifier) - 2)

\* Resolver::resolve: import map first, then relative paths, else unchanged
Resolve(r, raw) ==
    LET keys == { k \in DOMAIN r.import_map : IsPrefix(k, raw) } IN
    IF keys # {}
    THEN LET k == CHOOSE k \in keys : \A k2 \in keys : Len(k2) <= Len(k)
         IN  r.import_map[k] \o SubSeq(raw, Len(k) + 1, Len(raw))
    ELSE IF IsPrefix(<<".", "/">>, raw)
    THEN DirOf(r.specifier) \o SubSeq(raw, 3, Len(raw))
    ELSE raw

\* Resolver::new(specifier, import_map, ..)
ResolverNew(specifier) ==
    [specifier           |-> specifier,
     specifier_is_remote |-> specifier[1] = "https://",
     deps                |-> <<>>,
     star_exports        |-> {},
     import_map          |-> ImportMap]

\* import_kind of the DependencyDescriptor recorded for an item
KindOf(item) ==
    CASE item.kind = "import_dyn"  -> "dynamic"
      [] item.kind = "export_from" -> "export-from"
      [] item.kind = "export_star" -> "export-star"
      [] OTHER                     -> "static"

IsImport(item) == item.kind \in ImportKinds

----------------------------------------------------------------------------
(* The passes of transform *)

\* EmitOptions (jsx_factory and jsx_fragment_factory keep their defaults)
EmitOptions == [source_map : BOOLEAN, is_dev : BOOLEAN]

\* a mutant of RefreshEnabled: the remote check is forgotten
RefreshEnabledDevOnly(is_dev, specifier_is_remote) == is_dev

\* swc.rs:139: options.is_dev && !specifier_is_remote
RefreshEnabled(is_dev, specifier_is_remote) == is_dev /\ ~specifier_is_remote

\* swc.rs:122-126
IsJsx(source_type) == source_type \in {"JSX", "TSX"}

Pass(n, e) == [name |-> n, enabled |-> e]

\* a mutant of Passes: type stripping is chained before the import rewrite
PassesStripFirst(is_dev, specifier_is_remote, jsx) ==
    << Pass("refresh", RefreshEnabled(is_dev, specifier_is_remote)),
       Pass("resolver_with_mark", jsx),
       Pass("jsx", jsx),
       Pass("strip", TRUE),
       Pass("resolve_fold", TRUE),
       Pass("decorators", TRUE),
       Pass("inject_helpers", TRUE),
       Pass("fixer", TRUE),
       Pass("hygiene", TRUE) >>

\* swc.rs:127-169: chain!(Optional(refresh), Optional(resolver_with_mark),
\* Optional(jsx), resolve_fold, decorators, inject_helpers, strip, fixer, hygiene)
Passes(is_dev, specifier_is_remote, jsx) ==
    << Pass("refresh", RefreshEnabled(is_dev, specifier_is_remote)),
       Pass("resolver_with_mark", jsx),
       Pass("jsx", jsx),
       Pass("resolve_fold", TRUE),
       Pass("decorators", TRUE),
       Pass("inject_helpers", TRUE),
       Pass("strip", TRUE),
       Pass("fixer", TRUE),
       Pass("hygiene", TRUE) >>

\* resolve_fold on one item: the specifier is rewritten to its resolution;
\* a bare `export *` may be rewritten to a path that is not the specifier
RewriteItem(r, item, keep_star) ==
    IF ~IsImport(item) THEN item
    ELSE IF item.kind = "export_star" /\ ~keep_star
    THEN [item EXCEPT !.src = <<"/-/">> \o Resolve(r, item.src)]
    ELSE [item EXCEPT !.src = Resolve(r, item.src)]

\* the DependencyDescriptor resolve_fold records for item i
Descriptor(r, items, i) ==
    [specifier |-> Resolve(r, items[i].src), kind |-> KindOf(items[i]), pos |-> i]

RECURSIVE DescriptorsFrom(_, _, _)
\* the descriptors of items i.., one for every import, in encounter order
DescriptorsFrom(r, items, i) ==
    IF i > Len(items) THEN <<>>
    ELSE (IF IsImport(items[i]) THEN <<Descriptor(r, items, i)>> ELSE <<>>)
         \o DescriptorsFrom(r, items, i + 1)

\* the resolver after resolve_fold has folded the module
ResolverAfterFold(r, items) ==
    [r EXCEPT
       !.deps = r.deps \o DescriptorsFrom(r, items, 1),
       !.star_exports = r.star_exports \cup
           { Resolve(r, items[i].src) :
               i \in { j \in 1..Len(items) : items[j].kind = "export_star" } }]

\* strip: type-only imports are removed
StripItems(items) ==
    LET Kept(item) == item.kind # "import_type" IN SelectSeq(items, Kept)

----------------------------------------------------------------------------
(* The code printer *)

NeedsEscape(c) == c = DQ \/ c = BS

RECURSIVE Escape(_, _)
\* the characters of a string literal's value, quote and backslash escaped
Escape(value, quote) ==
    IF value = <<>> THEN <<>>
    ELSE (IF Head(value) = quote \/ Head(value) = BS
          THEN <<BS, Head(value)>> ELSE <<Head(value)>>)
         \o Escape(Tail(value), quote)

\* A string literal as the printer writes it: double-quoted as it is when
\* nothing needs escaping; otherwise escaped, or in single quotes.
EmitStr(value, style) ==
    IF \A i \in 1..Len(value) : ~NeedsEscape(value[i])
    THEN <<DQ>> \o value \o <<DQ>>
    ELSE IF style = "single"
    THEN <<SQ>> \o Escape(value, SQ) \o <<SQ>>
    ELSE <<DQ>> \o Escape(value, DQ) \o <<DQ>>

QuoteStyles == {"double", "single"}

\* the text of one module item
EmitItem(item, style) ==
    CASE item.kind \in {"import", "import_type"} ->
            <<"import x from ">> \o EmitStr(item.src, style) \o <<";\n">>
      [] item.kind = "import_dyn" ->
            <<"import(">> \o EmitStr(item.src, style) \o <<")", ";\n">>
      [] item.kind = "export_from" ->
            <<"export { x } from ">> \o EmitStr(item.src, style) \o <<";\n">>
      [] item.kind = "export_star" ->
            <<"export * from ">> \o EmitStr(item.src, style) \o <<";\n">>
      [] OTHER -> <<"export ", item.kind, ";\n">>

\* program.emit_with(&mut emitter): the text of the module
EmitModule(items, style) ==
    Flatten([i \in 1..Len(items) |-> EmitItem(items[i], style)])

NoMap == [some |-> FALSE, sources |-> <<>>]

\* a mutant of Output: the map is built whatever source_map says
OutputAlways(src, source_map, cm) ==
    [code |-> src, built |-> TRUE,
     map  |-> [some |-> TRUE, sources |-> IF src = <<>> THEN <<>> ELSE cm]]

\* swc.rs:224-236: the map is built (from the files the mappings refer to)
\* only when source_map is set
Output(src, source_map, cm) ==
    IF source_map
    THEN [code |-> src, built |-> TRUE,
          map  |-> [some |-> TRUE, sources |-> IF src = <<>> THEN <<>> ELSE cm]]
    ELSE [code |-> src, built |-> FALSE, map |-> NoMap]

----------------------------------------------------------------------------
(* The dependency pruner *)

\* a mutant of Retained: star exports are not looked at
RetainedNoStar(dep, star_exports, text) ==
    Contains(text, to_str_lit(dep.specifier))

\* swc.rs:177-178
Retained(dep, star_exports, text) ==
    \/ dep.specifier \in star_exports
    \/ Contains(text, to_str_lit(dep.specifier))

RECURSIVE DedupInto(_, _, _, _)
\* the pruning loop, skipping a dep whose specifier is already in acc
DedupInto(acc, deps, star_exports, text) ==
    IF deps = <<>> THEN acc
    ELSE LET d == Head(deps) IN
         IF Retained(d, star_exports, text)
            /\ \A i \in 1..Len(acc) : acc[i].specifier # d.specifier
         THEN DedupInto(Append(acc, d), Tail(deps), star_exports, text)
         ELSE DedupInto(acc, Tail(deps), star_exports, text)

\* a mutant of TreeShake: a specifier already kept is not kept twice
TreeShakeDedup(deps, star_exports, text) ==
    DedupInto(<<>>, deps, star_exports, text)

\* swc.rs:175-183: the deps that are retained, in their order
TreeShake(deps, star_exports, text) ==
    LET Keep(dep) == Retained(dep, star_exports, text) IN SelectSeq(deps, Keep)

----------------------------------------------------------------------------
(* State machine *)

NoResolver == [specifier |-> <<>>, specifier_is_remote |-> FALSE, deps |-> <<>>,
               star_exports |-> {}, import_map |-> ImportMap]

NoOptions == [source_map |-> FALSE, is_dev |-> FALSE]

NoResult == [kind |-> "None", code |-> <<>>, map |-> NoMap]

NoNames == [kind |-> "None", names |-> <<>>]

Init ==
    /\ pc = "start"
    /\ swc = NoSWC
    /\ parsed = [kind |-> "None", err |-> NoErr, swc |-> NoSWC]
    /\ resolver = NoResolver
    /\ options = NoOptions
    /\ remote = FALSE
    /\ passes = <<>>
    /\ idx = 0
    /\ program = <<>>
    /\ code = <<>>
    /\ map = NoMap
    /\ mapBuilt = FALSE
    /\ result = NoResult
    /\ log = <<>>
    /\ names = NoNames

\* the caller calls SWC::parse(specifier, source, source_type)
ParseFrom(specifiers, sources, hints) ==
    /\ pc = "start"
    /\ \E specifier \in specifiers, source \in sources, hint \in hints :
         LET r == parse(specifier, source, hint) IN
         /\ parsed' = r
         /\ swc' = r.swc
         /\ pc' = IF r.kind = "Ok" THEN "parsed" ELSE "parse_panicked"
    /\ UNCHANGED <<resolver, options, remote, passes, idx, program, code, map,
                   mapBuilt, result, log, names>>

Parse == ParseFrom(OwnSpecifiers, Sources, Hints)

\* the caller makes the Resolver of the compilation (swc.rs:291-297)
NewResolver ==
    /\ pc = "parsed"
    /\ resolver' = ResolverNew(swc.specifier)
    /\ pc' = "ready"
    /\ UNCHANGED <<swc, parsed, options, remote, passes, idx, program, code, map,
                   mapBuilt, result, log, names>>

\* transform, swc.rs:119-169, and the start of apply_fold, swc.rs:195
TransformBegin ==
    /\ pc = "ready"
    /\ \E o \in EmitOptions :
         /\ options' = o
         /\ remote' = resolver.specifier_is_remote
         /\ passes' = Passes(o.is_dev, resolver.specifier_is_remote,
                             IsJsx(swc.source_type))
    /\ idx' = 1
    /\ program' = swc.module
    /\ pc' = "fold"
    /\ UNCHANGED <<swc, parsed, resolver, code, map, mapBuilt, result, log, names>>

\* program.fold_with(&mut fold) reaches pass `name` of the chain: an Optional
\* that is not enabled leaves the program as it is
FoldPass(name, folded, r) ==
    /\ pc = "fold"
    /\ idx <= Len(passes)
    /\ passes[idx].name = name
    /\ IF passes[idx].enabled
       THEN /\ program' = folded
            /\ resolver' = r
            /\ log' = Append(log, name)
       ELSE UNCHANGED <<program, resolver, log>>
    /\ idx' = idx + 1
    /\ pc' = IF idx = Len(passes) THEN "emit" ELSE "fold"
    /\ UNCHANGED <<swc, parsed, options, remote, passes, code, map, mapBuilt,
                   result, names>>

\* a pass or the printer fails: the failure is a panic (transform unwraps the
\* result of apply_fold, swc.rs:171, apply_fold that of emit_with, swc.rs:221)
Panic(step) ==
    /\ result' = [kind |-> "Panic", code |-> <<>>, map |-> NoMap]
    /\ log' = Append(log, step)
    /\ pc' = "panicked"
    /\ UNCHANGED <<swc, parsed, resolver, options, remote, passes, idx, program,
                   code, map, mapBuilt, names>>

Refresh == FoldPass("refresh", program, resolver)

ResolverWithMark == FoldPass("resolver_with_mark", program, resolver)

Jsx == FoldPass("jsx", program, resolver)

ResolveFold ==
    \E keep_star \in BOOLEAN :
        FoldPass("resolve_fold",
                 [i \in 1..Len(program) |-> RewriteItem(resolver, program[i], keep_star)],
                 ResolverAfterFold(resolver, program))

Decorators == FoldPass("decorators", program, resolver)

\* a decorator on a target the pass does not support
DecoratorsFail ==
    /\ pc = "fold"
    /\ idx <= Len(passes)
    /\ passes[idx].name = "decorators"
    /\ Panic("decorators_failed")

InjectHelpers == FoldPass("inject_helpers", program, resolver)

Strip == FoldPass("strip", StripItems(program), resolver)

Fixer == FoldPass("fixer", program, resolver)

Hygiene == FoldPass("hygiene", program, resolver)

\* apply_fold, swc.rs:199-236: the program is printed and the map built
Emit ==
    /\ pc = "emit"
    /\ \E style \in QuoteStyles :
         LET out == Output(EmitModule(program, style), options.source_map,
                           swc.source_map)
         IN  /\ code' = out.code
             /\ map' = out.map
             /\ mapBuilt' = out.built
    /\ log' = Append(log, "emit")
    /\ pc' = "shake"
    /\ UNCHANGED <<swc, parsed, resolver, options, remote, passes, idx, program,
                   result, names>>

\* emit_with returns an error
EmitFail ==
    /\ pc = "emit"
    /\ Panic("emit_failed")

\* transform, swc.rs:172-183
Shake ==
    /\ pc = "shake"
    /\ resolver' = [resolver EXCEPT
                      !.deps = TreeShake(resolver.deps, resolver.star_exports, code)]
    /\ log' = Append(log, "tree_shake")
    /\ pc' = "return"
    /\ UNCHANGED <<swc, parsed, options, remote, passes, idx, program, code, map,
                   mapBuilt, result, names>>

\* transform, swc.rs:185: Ok((code, map))
Return ==
    /\ pc = "return"
    /\ result' = [kind |-> "Ok", code |-> code, map |-> map]
    /\ log' = Append(log, "return")
    /\ pc' = "done"
    /\ UNCHANGED <<swc, parsed, resolver, options, remote, passes, idx, program,
                   code, map, mapBuilt, names>>

Next ==
    \/ Parse
    \/ NewResolver
    \/ TransformBegin
    \/ Refresh
    \/ ResolverWithMark
    \/ Jsx
    \/ ResolveFold
    \/ Decorators
    \/ DecoratorsFail
    \/ InjectHelpers
    \/ Strip
    \/ Fixer
    \/ Hygiene
    \/ Emit
    \/ EmitFail
    \/ Shake
    \/ Return

Spec == Init /\ [][Next]_vars

----------------------------------------------------------------------------
(* Export names *)

\* `export const <pat> = ..`, `export function f`, `export class C`
ExportDecl(p) == [kind |-> "export_decl", src |-> <<>>, pat |-> p, ids |-> <<>>]

\* `export default ..`
ExportDefault == [kind |-> "export_default", src |-> <<>>, pat |-> NoPat, ids |-> <<>>]

\* `export { a, b as c } from "s"`: ids are the exported names
ExportNamed(s, xs) == [kind |-> "export_named", src |-> s, pat |-> NoPat, ids |-> xs]

\* `export * as Y from "s"`
ExportStarAs(s, y) == [kind |-> "export_star_as", src |-> s, pat |-> NoPat, ids |-> <<y>>]

\* a statement that exports nothing
Stmt == [kind |-> "stmt", src |-> <<>>, pat |-> NoPat, ids |-> <<>>]

PatIdents == { Ident("a"), Ident("b") }

\* the patterns one level deeper than those of P: an object pattern ends
\* with a pattern of P or `...id`, an array pattern with one of P or `...pat`
Deeper(P) ==
    LET objLast == P \cup { RestPat(i) : i \in PatIdents }
        arrLast == P \cup { RestPat(q) : q \in P }
    IN  P \cup { ObjectPat(<<l>>) : l \in objLast }
          \cup { ObjectPat(<<f, l>>) : f \in P, l \in objLast }
          \cup { ArrayPat(<<l>>) : l \in arrLast }
          \cup { ArrayPat(<<f, l>>) : f \in P, l \in arrLast }

RECURSIVE PatternsOfDepth(_)
PatternsOfDepth(d) == IF d = 0 THEN PatIdents ELSE Deeper(PatternsOfDepth(d - 1))

StdServer == <<"https://deno.land/std/http/sever.ts">>

\* the module of the test parse_export_names, swc.rs:361-376
TestModule ==
    << ExportDecl(Ident("name")),
       ExportDecl(Ident("version")),
       Stmt,
       ExportDefault,
       ExportDecl(ObjectPat(<<Ident("build")>>)),
       ExportDecl(Ident("dev")),
       ExportDecl(Ident("Server")),
       ExportDecl(ObjectPat(<< ObjectPat(<<Ident("a1"), Ident("a2")>>),
                               ArrayPat(<<Ident("b1"), Ident("b2")>>),
                               Ident("c"),
                               RestPat(Ident("rest")) >>)),
       ExportDecl(ArrayPat(<< Ident("d"), Ident("e"),
                              RestPat(ObjectPat(<<Ident("f"), Ident("g"),
                                                  Ident("rest3")>>)) >>)),
       Stmt,
       ExportDecl(Ident("j")),
       ExportNamed(<<"https://deno.land/std/fs/exists.ts">>,
                   << <<"exists">>, <<"existsSync">> >>),
       ExportStarAs(StdServer, <<"DenoStdServer">>),
       ImportItem("export_star", StdServer) >>

\* what the test expects of it, swc.rs:380-403
TestNames ==
    << <<"name">>, <<"version">>, <<"default">>, <<"build">>, <<"dev">>,
       <<"Server">>, <<"a1">>, <<"a2">>, <<"b1">>, <<"b2">>, <<"c">>, <<"rest">>,
       <<"d">>, <<"e">>, <<"f">>, <<"g">>, <<"rest3">>, <<"j">>, <<"exists">>,
       <<"existsSync">>, <<"DenoStdServer">>, <<"{">> \o StdServer \o <<"}">> >>

\* the source texts given to parse before parse_export_names
ExportSources ==
    { <<ExportDecl(p)>> : p \in PatternsOfDepth(MaxDepth) }
        \cup { TestModule, <<>>, <<ExportDefault>>, <<Stmt>> }

RECURSIVE PatternNames(_)
\* ExportParser on a pattern: the binding identifiers, in the order the fold
\* visits them
PatternNames(p) ==
    IF p.t = "id" THEN <<p.name>>
    ELSE Flatten([i \in 1..Len(p.elems) |-> PatternNames(p.elems[i])])

\* ExportParser on one module item
ItemNames(item) ==
    CASE item.kind = "export_decl"    -> PatternNames(item.pat)
      [] item.kind = "export_default" -> << <<"default">> >>
      [] item.kind = "export_named"   -> item.ids
      [] item.kind = "export_star_as" -> item.ids
      [] item.kind = "export_star"    -> << <<"{">> \o item.src \o <<"}">> >>
      [] OTHER                        -> <<>>

\* program.fold_with(&mut ExportParser { names: vec![] })
ExportParserFold(module) ==
    Flatten([i \in 1..Len(module) |-> ItemNames(module[i])])

\* a mutant of parse_export_names: the names are returned before the fold
parse_export_names_unfolded(s) == [kind |-> "Ok", names |-> <<>>]

\* SWC::parse_export_names: folds a clone of the module, returns Ok(names)
parse_export_names(s) == [kind |-> "Ok", names |-> ExportParserFold(s.module)]

ParseExports == ParseFrom({ <<"/", "app", ".ts">> }, ExportSources, Hints)

ParseExportNames ==
    /\ pc = "parsed"
    /\ names' = parse_export_names(swc)
    /\ pc' = "names_done"
    /\ UNCHANGED <<swc, parsed, resolver, options, remote, passes, idx, program,
                   code, map, mapBuilt, result, log>>

NextExports ==
    \/ ParseExports
    \/ ParseExportNames

SpecExports == Init /\ [][NextExports]_vars

----------------------------------------------------------------------------
(* Properties *)

\* the text `"s"`
Quoted(s) == <<DQ>> \o s \o <<DQ>>

\* the k-th smallest element of a set of numbers
KthOf(S, k) == CHOOSE i \in S : Cardinality({ j \in S : j < i }) = k - 1

Ran(step) == \E i \in 1..Len(log) : log[i] = step

Pruned == pc \in {"return", "done"}

\* C1: the pruning step replaces deps by exactly those of its entries whose
\* specifier is a star export or occurs between double quotes in the emitted
\* text, in their original order, none added, duplicated or reordered.
C1_PruneIsFilter ==
    [][pc = "shake" =>
         LET pre  == resolver.deps
             post == resolver'.deps
             K    == { i \in 1..Len(pre) :
                         \/ pre[i].specifier \in resolver.star_exports
                         \/ Contains(code, Quoted(pre[i].specifier)) }
         IN  /\ Len(post) = Cardinality(K)
             /\ \A k \in 1..Len(post) : post[k] = pre[KthOf(K, k)]
             /\ code' = code
             /\ resolver'.star_exports = resolver.star_exports]_vars

\* C1 happens: a compilation whose pruning kept one entry and dropped another
C1_Witness ==
    /\ pc = "done"
    /\ Len(resolver.deps) > 0
    /\ Len(resolver.deps) < Cardinality({ i \in 1..Len(swc.module) : IsImport(swc.module[i]) })

\* C2: after pruning, every module the emitted program still imports or
\* re-exports from has its descriptor in deps.
C2_NoUnderRetention ==
    Pruned =>
        \A i \in 1..Len(program) :
            IsImport(program[i]) =>
                \E k \in 1..Len(resolver.deps) :
                    /\ resolver.deps[k].kind = KindOf(program[i])
                    /\ \/ resolver.deps[k].specifier = program[i].src
                       \/ /\ program[i].kind = "export_star"
                          /\ <<"/-/">> \o resolver.deps[k].specifier = program[i].src

\* C3: in every state every star export specifier has a deps entry of kind
\* export-star (so that entry survives pruning whatever the text holds).
C3_StarExportsInDeps ==
    \A s \in resolver.star_exports :
        \E k \in 1..Len(resolver.deps) :
            /\ resolver.deps[k].specifier = s
            /\ resolver.deps[k].kind = "export-star"

\* C3 happens: a star export whose quoted specifier is not in the text is
\* still in deps after pruning
C3_Witness ==
    /\ pc = "done"
    /\ \E s \in resolver.star_exports :
         /\ ~Contains(code, Quoted(s))
         /\ \E k \in 1..Len(resolver.deps) :
              resolver.deps[k].specifier = s /\ resolver.deps[k].kind = "export-star"

StaticImports(module) ==
    { i \in 1..Len(module) : module[i].kind \in {"import", "import_type"} }

IsStatic(dep) == dep.kind = "static"

\* C4: when the rewritten specifier of every static import of the module is
\* in the text between double quotes, the static entries of the pruned deps
\* are exactly those imports, one entry per import, in the order of the module.
C4_StaticImportsKept ==
    Pruned =>
        LET S       == StaticImports(swc.module)
            spec(i) == Resolve(resolver, swc.module[i].src)
            statics == SelectSeq(resolver.deps, IsStatic)
        IN  (\A i \in S : Contains(code, Quoted(spec(i)))) =>
                /\ Len(statics) = Cardinality(S)
                /\ \A k \in 1..Len(statics) :
                     /\ statics[k].pos = KthOf(S, k)
                     /\ statics[k].specifier = spec(KthOf(S, k))

\* C4 happens: two static imports of one specifier, two entries
C4_Witness ==
    /\ pc = "done"
    /\ Len(swc.module) = 2
    /\ StaticImports(swc.module) = {1, 2}
    /\ Len(resolver.deps) = 2
    /\ resolver.deps[1].specifier = resolver.deps[2].specifier
    /\ resolver.deps[1].pos = 1
    /\ resolver.deps[2].pos = 2

\* C5: when a pass or the printer fails, transform returns an error to its
\* caller, without code and without map.
C5_FailureIsReturnedError ==
    pc = "panicked" =>
        /\ result.kind = "Err"
        /\ result.code = <<>>
        /\ ~result.map.some

\* C6: when the source does not parse, parse returns an error carrying
\* specifier, line, column and message, and no SWC value.
C6_ParseErrorIsReturned ==
    pc = "parse_panicked" =>
        /\ parsed.kind = "Err"
        /\ parsed.err.specifier \in OwnSpecifiers
        /\ parsed.err.line >= 1
        /\ parsed.err.message # ""
        /\ parsed.swc = NoSWC
        /\ swc = NoSWC

----------------------------------------------------------------------------

\* the paths (child indices from the root) of the identifiers of a pattern
RECURSIVE LeafPaths(_)
LeafPaths(p) ==
    IF p.t = "id" THEN { <<>> }
    ELSE UNION { { <<i>> \o q : q \in LeafPaths(p.elems[i]) } :
                   i \in 1..Len(p.elems) }

RECURSIVE NameAt(_, _)
NameAt(p, path) == IF path = <<>> THEN p.name ELSE NameAt(p.elems[Head(path)], Tail(path))

\* path a is left of path b: smaller at the first index where they differ
LeftOf(a, b) ==
    \E n \in 1..Len(a) :
        /\ n <= Len(b)
        /\ \A m \in 1..(n - 1) : a[m] = b[m]
        /\ a[n] < b[n]

\* the number of names the items before item i contribute
RECURSIVE NamesBefore(_, _)
NamesBefore(module, i) ==
    IF i <= 1 THEN 0
    ELSE NamesBefore(module, i - 1) +
         (IF module[i - 1].kind = "export_decl"
          THEN Cardinality(LeafPaths(module[i - 1].pat))
          ELSE Len(ItemNames(module[i - 1])))

\* C7: parse_export_names returns Ok; for every exported declaration the
\* names it contributes are the identifiers at the leaves of its pattern, the
\* one further left in the pattern first (a rest element by the identifier it
\* binds); the parsed module is what parse returned.
C7_ExportNamesLeafOrder ==
    pc = "names_done" =>
        /\ names.kind = "Ok"
        /\ swc = parsed.swc
        /\ Len(names.names) = NamesBefore(swc.module, Len(swc.module) + 1)
        /\ \A i \in 1..Len(swc.module) :
             swc.module[i].kind = "export_decl" =>
                LET L   == LeafPaths(swc.module[i].pat)
                    off == NamesBefore(swc.module, i)
                IN  \A path \in L :
                        names.names[off + 1 + Cardinality({ q \in L : LeftOf(q, path) })]
                            = NameAt(swc.module[i].pat, path)

\* C7 happens: the module of the test gives the names the test expects
C7_Witness ==
    /\ pc = "names_done"
    /\ swc.module = TestModule
    /\ names.names = TestNames

----------------------------------------------------------------------------

\* C8: a returned map is there exactly when source_map is set; without
\* source_map no map is built; the sources of a map are the input specifier.
C8_MapIffSourceMap ==
    pc = "done" =>
        /\ result.kind = "Ok"
        /\ result.map.some <=> options.source_map
        /\ mapBuilt <=> options.source_map
        /\ \A i \in 1..Len(result.map.sources) : result.map.sources[i] = swc.specifier

\* C8 happens: a compilation with source_map returns a map naming the specifier
C8_Witness ==
    /\ pc = "done"
    /\ options.source_map
    /\ result.map.some
    /\ result.map.sources = <<swc.specifier>>

\* the place of each step in the order the specification fixes
Rank(step) ==
    CASE step = "refresh"            -> 1
      [] step = "resolver_with_mark" -> 2
      [] step = "jsx"                -> 3
      [] step = "resolve_fold"       -> 4
      [] step \in {"decorators", "decorators_failed"} -> 5
      [] step = "inject_helpers"     -> 6
      [] step = "strip"              -> 7
      [] step = "fixer"              -> 8
      [] step = "hygiene"            -> 9
      [] step \in {"emit", "emit_failed"} -> 10
      [] step = "tree_shake"         -> 11
      [] step = "return"             -> 12

\* C9: the steps that run do so in the fixed order; the printer starts after
\* the last pass, the pruner after the printer, and transform returns after
\* the pruner.
C9_FixedOrder ==
    /\ \A i, j \in 1..Len(log) : i < j => Rank(log[i]) < Rank(log[j])
    /\ (Ran("emit") \/ Ran("emit_failed")) => Ran("fixer") /\ Ran("hygiene")
    /\ Ran("tree_shake") => Ran("emit")
    /\ Ran("return") => Ran("tree_shake")
    /\ pc = "done" <=> Ran("return")

\* C9 happens: a compilation in which every pass ran has returned
C9_Witness ==
    /\ pc = "done"
    /\ Len(log) = 12

\* C10: refresh runs only if is_dev and the specifier is not remote, binding
\* marking and JSX desugaring only for JSX / TSX; once the chain has folded,
\* each of them has run exactly if so, and the import rewrite, decorators,
\* helper injection and the fixups have run.
C10_Gating ==
    LET dev == options.is_dev /\ ~resolver.specifier_is_remote
        jsx == swc.source_type \in {"JSX", "TSX"}
    IN  /\ Ran("refresh") => dev
        /\ Ran("resolver_with_mark") => jsx
        /\ Ran("jsx") => jsx
        /\ pc \in {"emit", "shake", "return", "done"} =>
             /\ Ran("refresh") <=> dev
             /\ Ran("resolver_with_mark") <=> jsx
             /\ Ran("jsx") <=> jsx
             /\ \A st \in {"resolve_fold", "decorators", "inject_helpers",
                           "fixer", "hygiene"} : Ran(st)

\* C10 happens: a dev compilation of a remote JSX module: no refresh, but JSX
C10_Witness ==
    /\ pc = "done"
    /\ options.is_dev
    /\ resolver.specifier_is_remote
    /\ Ran("jsx")
    /\ ~Ran("refresh")

====
